------------------------------ MODULE Spec2Model ------------------------------
(***************************************************************************)
(* A model of src/src/App.js: the circuit catalog (RECIPES), the output    *)
(* evaluation (the outputs useMemo), the pin resolver (getCoords), the     *)
(* wire renderer (Wire and the wire loop) and the handlers of the          *)
(* component CircuitDesignerPro (handleSearch, handleExplain, the input    *)
(* toggle).                                                                *)
(*                                                                         *)
(* JavaScript values are records [t |-> type, v |-> payload]; a JavaScript *)
(* string that the code inspects character by character (a wire endpoint   *)
(* token, a search query) is [t |-> "string", s |-> sequence of            *)
(* characters].  Board coordinates are kept in quarter pixels (see Q), so  *)
(* that CELL * 1.5, CELL * 4.5 and the mid height of a wire are integers.  *)
(***************************************************************************)
EXTENDS Integers, Sequences, FiniteSets, TLC

VARIABLES
  activeRecipe,   \* useState(RECIPES['basic_gates']): a reference to a circuit
  inputs,         \* useState([0,0,0,0,0,0]): the input vector
  outputs,        \* the value the outputs useMemo holds
  loading,        \* useState(false): handleSearch awaits generateCircuitAI
  explanation,    \* useState('')
  alerts,         \* the messages alert() has shown so far
  apiKey,         \* whether process.env.REACT_APP_GEMINI_API_KEY is set
  explaining,     \* useState(false): handleExplain awaits explainCircuitAI
  explainCall,    \* the circuit of the explainCircuitAI call in flight
  board,          \* a circuit description handed to the wire loop
  drawn           \* what the wire loop rendered for board

vars ==
  << activeRecipe, inputs, outputs, loading, explanation, alerts, apiKey,
     explaining, explainCall, board, drawn >>

-----------------------------------------------------------------------------
(* JavaScript values and operators, as far as the code uses them *)

Num(n) == [t |-> "number", v |-> n]

Bool(b) == [t |-> "boolean", v |-> IF b THEN 1 ELSE 0]

Undefined == [t |-> "undefined", v |-> 0]

NaN == [t |-> "NaN", v |-> 0]

\* A string, as its sequence of characters.
S(chars) == [t |-> "string", s |-> chars]

\* typeof a === 'string'
IsString(a) == "t" \in DOMAIN a /\ a.t = "string"

\* A function value: name identifies the function body.
Fn(name) == [t |-> "function", v |-> name]

\* ToBoolean: 0, NaN, false and undefined are falsy.
Truthy(a) ==
  CASE a.t = "number" -> a.v # 0
    [] a.t = "boolean" -> a.v = 1
    [] a.t = "undefined" -> FALSE
    [] a.t = "NaN" -> FALSE
    [] OTHER -> TRUE

\* ToNumber yields NaN for undefined (and for NaN).
IsNaN(a) == a.t \in {"undefined", "NaN"}

\* ToNumber of a number or a boolean; ToInt32 maps NaN to 0.
ToInt32(a) == IF IsNaN(a) THEN 0 ELSE a.v

RECURSIVE AndN(_, _)
AndN(a, b) == IF a = 0 \/ b = 0 THEN 0
              ELSE (a % 2) * (b % 2) + 2 * AndN(a \div 2, b \div 2)

RECURSIVE OrN(_, _)
OrN(a, b) == IF a = 0 /\ b = 0 THEN 0
             ELSE (IF a % 2 = 1 \/ b % 2 = 1 THEN 1 ELSE 0) + 2 * OrN(a \div 2, b \div 2)

RECURSIVE XorN(_, _)
XorN(a, b) == IF a = 0 /\ b = 0 THEN 0
              ELSE ((a + b) % 2) + 2 * XorN(a \div 2, b \div 2)

\* a & b, a | b, a ^ b, a >> k on the non-negative values the circuits produce
BitAnd(a, b) == Num(AndN(ToInt32(a), ToInt32(b)))

BitOr(a, b) == Num(OrN(ToInt32(a), ToInt32(b)))

BitXor(a, b) == Num(XorN(ToInt32(a), ToInt32(b)))

Shr(a, k) == Num(ToInt32(a) \div (2 ^ k))

\* !a
Not(a) == Bool(~Truthy(a))

\* a + b and a * b on numbers and booleans
Add(a, b) == IF IsNaN(a) \/ IsNaN(b) THEN NaN ELSE Num(a.v + b.v)

Mul(a, b) == IF IsNaN(a) \/ IsNaN(b) THEN NaN ELSE Num(a.v * b.v)

\* a === b, a > b, a < b on the results of Add and Mul
StrictEq(a, b) == a.t = "number" /\ b.t = "number" /\ a.v = b.v

Gt(a, b) == ~IsNaN(a) /\ ~IsNaN(b) /\ a.v > b.v

Lt(a, b) == ~IsNaN(a) /\ ~IsNaN(b) /\ a.v < b.v

\* i[k] of a JavaScript array (0-based): undefined past the end
At(i, k) == IF k >= 0 /\ k < Len(i) THEN i[k + 1] ELSE Undefined

\* out[k] = val on a JavaScript array: holes read as undefined
ArraySet(out, k, val) ==
  IF k.t # "number" \/ k.v < 0 THEN out
  ELSE [j \in 1..(IF k.v + 1 > Len(out) THEN k.v + 1 ELSE Len(out)) |->
          IF j = k.v + 1 THEN val ELSE At(out, j - 1)]

\* [0,0,0,0,0,0]
Zeros(n) == [j \in 1..n |-> Num(0)]

-----------------------------------------------------------------------------
(* The logic functions of RECIPES.  Each takes the input array i and       *)
(* returns the output array; none assigns to i or to anything outside its  *)
(* own locals.                                                             *)

\* (i) => [i[0]&i[1], i[0]|i[1]]
basic_gates_logic(i) == << BitAnd(At(i, 0), At(i, 1)), BitOr(At(i, 0), At(i, 1)) >>

\* (i) => [!i[0]]
not_using_nand_logic(i) == << Not(At(i, 0)) >>

\* (i) => [!!(i[0]&i[1])]
and_using_nand_logic(i) == << Not(Not(BitAnd(At(i, 0), At(i, 1)))) >>

\* Mutant of or_using_nand_logic: the body of and_using_nor pasted in.
or_using_nand_logic_pastedAnd(i) == << BitAnd(At(i, 0), At(i, 1)) >>

\* (i) => [i[0]|i[1]]
or_using_nand_logic(i) == << BitOr(At(i, 0), At(i, 1)) >>

\* (i) => [!i[0]]
not_using_nor_logic(i) == << Not(At(i, 0)) >>

\* (i) => [i[0]|i[1]]
or_using_nor_logic(i) == << BitOr(At(i, 0), At(i, 1)) >>

\* (i) => [i[0]&i[1]]
and_using_nor_logic(i) == << BitAnd(At(i, 0), At(i, 1)) >>

\* (i) => [i[0]^i[1], i[0]&i[1]]
half_adder_logic(i) == << BitXor(At(i, 0), At(i, 1)), BitAnd(At(i, 0), At(i, 1)) >>

\* Mutant of full_adder_logic: the carry drops the Cin term.
full_adder_logic_noCarryIn(i) ==
  << BitXor(BitXor(At(i, 0), At(i, 1)), At(i, 2)), BitAnd(At(i, 0), At(i, 1)) >>

\* (i) => [i[0]^i[1]^i[2], (i[0]&i[1])|(i[2]&(i[0]^i[1]))]
full_adder_logic(i) ==
  << BitXor(BitXor(At(i, 0), At(i, 1)), At(i, 2)),
     BitOr(BitAnd(At(i, 0), At(i, 1)),
           BitAnd(At(i, 2), BitXor(At(i, 0), At(i, 1)))) >>

\* (i) => [i[0]^i[1], (!i[0])&i[1]]
half_subtractor_logic(i) ==
  << BitXor(At(i, 0), At(i, 1)), BitAnd(Not(At(i, 0)), At(i, 1)) >>

\* diff = i[0]^i[1]^i[2]; bout = ((!i[0])&i[1]) | ((!(i[0]^i[1]))&i[2])
full_subtractor_logic(i) ==
  LET diff == BitXor(BitXor(At(i, 0), At(i, 1)), At(i, 2))
      bout == BitOr(BitAnd(Not(At(i, 0)), At(i, 1)),
                    BitAnd(Not(BitXor(At(i, 0), At(i, 1))), At(i, 2)))
  IN  << diff, bout >>

\* Mutant of multiplier_2bit_logic: A read with A0 as the high bit.
multiplier_2bit_logic_swappedBits(i) ==
  LET a == Add(Mul(At(i, 0), Num(2)), At(i, 1))
      b == Add(At(i, 2), Mul(At(i, 3), Num(2)))
      p == Mul(a, b)
  IN  << BitAnd(p, Num(1)), BitAnd(Shr(p, 1), Num(1)),
         BitAnd(Shr(p, 2), Num(1)), BitAnd(Shr(p, 3), Num(1)) >>

\* a = i[0] + (i[1]*2); b = i[2] + (i[3]*2); p = a * b;
\* return [p&1, (p>>1)&1, (p>>2)&1, (p>>3)&1]
multiplier_2bit_logic(i) ==
  LET a == Add(At(i, 0), Mul(At(i, 1), Num(2)))
      b == Add(At(i, 2), Mul(At(i, 3), Num(2)))
      p == Mul(a, b)
  IN  << BitAnd(p, Num(1)), BitAnd(Shr(p, 1), Num(1)),
         BitAnd(Shr(p, 2), Num(1)), BitAnd(Shr(p, 3), Num(1)) >>

\* (i) => [i[0], i[0]^i[1], i[1]^i[2], i[2]^i[3]]
binary_gray_logic(i) ==
  << At(i, 0), BitXor(At(i, 0), At(i, 1)), BitXor(At(i, 1), At(i, 2)),
     BitXor(At(i, 2), At(i, 3)) >>

\* Mutant of mux_74153_logic: sel computed with A as the high bit.
mux_74153_logic_selSwapped(i) ==
  LET sel == Add(Mul(At(i, 0), Num(2)), At(i, 1))
  IN  IF StrictEq(sel, Num(0)) THEN << At(i, 2) >>
      ELSE IF StrictEq(sel, Num(1)) THEN << At(i, 3) >>
      ELSE IF StrictEq(sel, Num(2)) THEN << At(i, 4) >>
      ELSE IF StrictEq(sel, Num(3)) THEN << At(i, 5) >>
      ELSE << Num(0) >>

\* sel = i[1]*2 + i[0]; if(sel === k) return [i[2 + k]]; return [0]
mux_74153_logic(i) ==
  LET sel == Add(Mul(At(i, 1), Num(2)), At(i, 0))
  IN  IF StrictEq(sel, Num(0)) THEN << At(i, 2) >>
      ELSE IF StrictEq(sel, Num(1)) THEN << At(i, 3) >>
      ELSE IF StrictEq(sel, Num(2)) THEN << At(i, 4) >>
      ELSE IF StrictEq(sel, Num(3)) THEN << At(i, 5) >>
      ELSE << Num(0) >>

\* if (i[2]) return [1,1,1,1]; sel = i[1]*2 + i[0]; out = [1,1,1,1];
\* out[sel] = 0; return out.map(v => !v)
decoder_74139_logic(i) ==
  IF Truthy(At(i, 2)) THEN << Num(1), Num(1), Num(1), Num(1) >>
  ELSE LET sel == Add(Mul(At(i, 1), Num(2)), At(i, 0))
           out == ArraySet(<< Num(1), Num(1), Num(1), Num(1) >>, sel, Num(0))
       IN  [j \in 1..Len(out) |-> Not(out[j])]

\* a = i[0]*2 + i[1]; b = i[2]*2 + i[3]; return [a>b, a===b, a<b]
comparator_7485_logic(i) ==
  LET a == Add(Mul(At(i, 0), Num(2)), At(i, 1))
      b == Add(Mul(At(i, 2), Num(2)), At(i, 3))
  IN  << Bool(Gt(a, b)), Bool(StrictEq(a, b)), Bool(Lt(a, b)) >>

\* Mutant of d_ff_7474_logic: D passes only while CLK is high.
d_ff_7474_logic_clockGated(i) ==
  IF ~Truthy(At(i, 3)) THEN << Num(0), Num(1) >>
  ELSE IF ~Truthy(At(i, 2)) THEN << Num(1), Num(0) >>
  ELSE << BitAnd(At(i, 0), At(i, 1)), Not(BitAnd(At(i, 0), At(i, 1))) >>

\* if(!i[3]) return [0,1]; if(!i[2]) return [1,0]; return [i[0], !i[0]]
d_ff_7474_logic(i) ==
  IF ~Truthy(At(i, 3)) THEN << Num(0), Num(1) >>
  ELSE IF ~Truthy(At(i, 2)) THEN << Num(1), Num(0) >>
  ELSE << At(i, 0), Not(At(i, 0)) >>

\* j=i[0], k=i[1]; if(j && !k) return [1,0]; if(!j && k) return [0,1];
\* if(j && k) return [1,1]; return [0,1]
jk_ff_7476_logic(i) ==
  LET j == At(i, 0)
      k == At(i, 1)
  IN  IF Truthy(j) /\ ~Truthy(k) THEN << Num(1), Num(0) >>
      ELSE IF ~Truthy(j) /\ Truthy(k) THEN << Num(0), Num(1) >>
      ELSE IF Truthy(j) /\ Truthy(k) THEN << Num(1), Num(1) >>
      ELSE << Num(0), Num(1) >>

\* return [i[0], !i[0]]
counter_mod4_logic(i) == << At(i, 0), Not(At(i, 0)) >>

-----------------------------------------------------------------------------
(* Configuration *)

CELL == 15

OFF_X == 140

OFF_Y == 30

\* n pixels in quarter pixels, the unit of every coordinate of the model
Q(n) == 4 * n

\* COLORS[name] for the wire colours; undefined for any other name
COLORS(name) ==
  CASE name = "WIRE_RED" -> S(<< "#", "e", "f", "4", "4", "4", "4" >>)
    [] name = "WIRE_BLACK" -> S(<< "#", "1", "1", "1", "8", "2", "7" >>)
    [] name = "WIRE_BLUE" -> S(<< "#", "3", "b", "8", "2", "f", "6" >>)
    [] name = "WIRE_ORANGE" -> S(<< "#", "f", "9", "7", "3", "1", "6" >>)
    [] name = "WIRE_GREEN" -> S(<< "#", "2", "2", "c", "5", "5", "e" >>)
    [] name = "WIRE_PURPLE" -> S(<< "#", "a", "8", "5", "5", "f", "7" >>)
    [] name = "WIRE_YELLOW" -> S(<< "#", "e", "a", "b", "3", "0", "8" >>)
    [] OTHER -> Undefined

-----------------------------------------------------------------------------
(* Wire endpoints: the string tokens and the {c, p} objects *)

VCC == S(<< "V", "C", "C" >>)

GND == S(<< "G", "N", "D" >>)

DigitChar(n) ==
  CASE n = 0 -> "0" [] n = 1 -> "1" [] n = 2 -> "2" [] n = 3 -> "3" [] n = 4 -> "4"
    [] n = 5 -> "5" [] n = 6 -> "6" [] n = 7 -> "7" [] n = 8 -> "8" [] n = 9 -> "9"

\* the token 'SW_<n>', n a single digit
SW(n) == S(<< "S", "W", "_", DigitChar(n) >>)

\* the token 'LED_<n>', n a single digit
LED(n) == S(<< "L", "E", "D", "_", DigitChar(n) >>)

\* {c: c, p: p}
P(c, p) == [c |-> c, p |-> p]

\* {s: s, e: e, color: color}
W(s, e, color) == [s |-> s, e |-> e, color |-> color]

\* Mutant of powerWires: the chip index taken as one-based.
powerWires_oneBased(chipIdx, pins) ==
  IF pins = Num(14) THEN
    << W(VCC, P(chipIdx + 1, 14), "WIRE_RED"), W(GND, P(chipIdx + 1, 7), "WIRE_BLACK") >>
  ELSE IF pins = Num(16) THEN
    << W(VCC, P(chipIdx + 1, 16), "WIRE_RED"), W(GND, P(chipIdx + 1, 8), "WIRE_BLACK") >>
  ELSE IF pins = S(<< "7", "4", "7", "6" >>) THEN
    << W(VCC, P(chipIdx + 1, 5), "WIRE_RED"), W(GND, P(chipIdx + 1, 13), "WIRE_BLACK") >>
  ELSE << >>

\* powerWires(chipIdx, pins = 14)
powerWires(chipIdx, pins) ==
  IF pins = Num(14) THEN
    << W(VCC, P(chipIdx, 14), "WIRE_RED"), W(GND, P(chipIdx, 7), "WIRE_BLACK") >>
  ELSE IF pins = Num(16) THEN
    << W(VCC, P(chipIdx, 16), "WIRE_RED"), W(GND, P(chipIdx, 8), "WIRE_BLACK") >>
  ELSE IF pins = S(<< "7", "4", "7", "6" >>) THEN
    << W(VCC, P(chipIdx, 5), "WIRE_RED"), W(GND, P(chipIdx, 13), "WIRE_BLACK") >>
  ELSE << >>

-----------------------------------------------------------------------------
(* RECIPES: the catalog.  explanation holds the first sentence of the      *)
(* source text; logic names the function (see the _logic operators).       *)

basic_gates ==
  [ title |-> "Basic Logic Gates",
    explanation |-> "Demonstrates basic 7400-series logic gates",
    chips |-> << [id |-> "u1", type |-> "7408", x |-> 20], [id |-> "u2", type |-> "7432", x |-> 35] >>,
    inputs |-> << "A", "B" >>,
    outputs |-> << "AND", "OR" >>,
    wires |->
      powerWires(0, Num(14))
      \o powerWires(1, Num(14))
      \o << W(SW(0), P(0, 1), "WIRE_BLUE"),
        W(SW(1), P(0, 2), "WIRE_ORANGE"),
        W(P(0, 3), LED(0), "WIRE_GREEN"),
        W(SW(0), P(1, 1), "WIRE_BLUE"),
        W(SW(1), P(1, 2), "WIRE_ORANGE"),
        W(P(1, 3), LED(1), "WIRE_GREEN") >>,
    logic |-> Fn("basic_gates") ]

not_using_nand ==
  [ title |-> "NOT using NAND",
    explanation |-> "A NAND gate can act as a NOT gate (Inverter) if you connect both of its inputs together",
    chips |-> << [id |-> "u1", type |-> "7400", x |-> 25] >>,
    inputs |-> << "A" >>,
    outputs |-> << "Y" >>,
    wires |->
      powerWires(0, Num(14))
      \o << W(SW(0), P(0, 1), "WIRE_BLUE"),
        W(SW(0), P(0, 2), "WIRE_BLUE"),
        W(P(0, 3), LED(0), "WIRE_GREEN") >>,
    logic |-> Fn("not_using_nand") ]

and_using_nand ==
  [ title |-> "AND using NAND",
    explanation |-> "An AND gate is just a NAND gate followed by an Inverter",
    chips |-> << [id |-> "u1", type |-> "7400", x |-> 25] >>,
    inputs |-> << "A", "B" >>,
    outputs |-> << "Y" >>,
    wires |->
      powerWires(0, Num(14))
      \o << W(SW(0), P(0, 1), "WIRE_BLUE"),
        W(SW(1), P(0, 2), "WIRE_ORANGE"),
        W(P(0, 3), P(0, 4), "WIRE_PURPLE"),
        W(P(0, 3), P(0, 5), "WIRE_PURPLE"),
        W(P(0, 6), LED(0), "WIRE_GREEN") >>,
    logic |-> Fn("and_using_nand") ]

or_using_nand ==
  [ title |-> "OR using NAND",
    explanation |-> "To make an OR gate from NANDs, we use De Morgan's Law",
    chips |-> << [id |-> "u1", type |-> "7400", x |-> 25] >>,
    inputs |-> << "A", "B" >>,
    outputs |-> << "Y" >>,
    wires |->
      powerWires(0, Num(14))
      \o << W(SW(0), P(0, 1), "WIRE_BLUE"),
        W(SW(0), P(0, 2), "WIRE_BLUE"),
        W(SW(1), P(0, 4), "WIRE_ORANGE"),
        W(SW(1), P(0, 5), "WIRE_ORANGE"),
        W(P(0, 3), P(0, 9), "WIRE_PURPLE"),
        W(P(0, 6), P(0, 10), "WIRE_PURPLE"),
        W(P(0, 8), LED(0), "WIRE_GREEN") >>,
    logic |-> Fn("or_using_nand") ]

not_using_nor ==
  [ title |-> "NOT using NOR",
    explanation |-> "A NOR gate acts as a NOT gate if its inputs are tied together",
    chips |-> << [id |-> "u1", type |-> "7402", x |-> 25] >>,
    inputs |-> << "A" >>,
    outputs |-> << "Y" >>,
    wires |->
      powerWires(0, Num(14))
      \o << W(SW(0), P(0, 2), "WIRE_BLUE"),
        W(SW(0), P(0, 3), "WIRE_BLUE"),
        W(P(0, 1), LED(0), "WIRE_GREEN") >>,
    logic |-> Fn("not_using_nor") ]

or_using_nor ==
  [ title |-> "OR using NOR",
    explanation |-> "An OR gate is just a NOR gate followed by an Inverter",
    chips |-> << [id |-> "u1", type |-> "7402", x |-> 25] >>,
    inputs |-> << "A", "B" >>,
    outputs |-> << "Y" >>,
    wires |->
      powerWires(0, Num(14))
      \o << W(SW(0), P(0, 2), "WIRE_BLUE"),
        W(SW(1), P(0, 3), "WIRE_ORANGE"),
        W(P(0, 1), P(0, 5), "WIRE_PURPLE"),
        W(P(0, 1), P(0, 6), "WIRE_PURPLE"),
        W(P(0, 4), LED(0), "WIRE_GREEN") >>,
    logic |-> Fn("or_using_nor") ]

and_using_nor ==
  [ title |-> "AND using NOR",
    explanation |-> "To make an AND gate from NORs, we use De Morgan's Law",
    chips |-> << [id |-> "u1", type |-> "7402", x |-> 25] >>,
    inputs |-> << "A", "B" >>,
    outputs |-> << "Y" >>,
    wires |->
      powerWires(0, Num(14))
      \o << W(SW(0), P(0, 2), "WIRE_BLUE"),
        W(SW(0), P(0, 3), "WIRE_BLUE"),
        W(SW(1), P(0, 5), "WIRE_ORANGE"),
        W(SW(1), P(0, 6), "WIRE_ORANGE"),
        W(P(0, 1), P(0, 8), "WIRE_PURPLE"),
        W(P(0, 4), P(0, 9), "WIRE_PURPLE"),
        W(P(0, 10), LED(0), "WIRE_GREEN") >>,
    logic |-> Fn("and_using_nor") ]

half_adder ==
  [ title |-> "Half Adder",
    explanation |-> "A Half Adder adds two binary digits",
    chips |-> << [id |-> "u1", type |-> "7486", x |-> 20], [id |-> "u2", type |-> "7408", x |-> 35] >>,
    inputs |-> << "A", "B" >>,
    outputs |-> << "Sum", "Cout" >>,
    wires |->
      powerWires(0, Num(14))
      \o powerWires(1, Num(14))
      \o << W(SW(0), P(0, 1), "WIRE_BLUE"),
        W(SW(1), P(0, 2), "WIRE_ORANGE"),
        W(P(0, 3), LED(0), "WIRE_GREEN"),
        W(SW(0), P(1, 1), "WIRE_BLUE"),
        W(SW(1), P(1, 2), "WIRE_ORANGE"),
        W(P(1, 3), LED(1), "WIRE_YELLOW") >>,
    logic |-> Fn("half_adder") ]

full_adder ==
  [ title |-> "Full Adder",
    explanation |-> "A Full Adder adds three bits (A, B, Carry-In)",
    chips |-> << [id |-> "u1", type |-> "7486", x |-> 15], [id |-> "u2", type |-> "7408", x |-> 28], [id |-> "u3", type |-> "7432", x |-> 41] >>,
    inputs |-> << "A", "B", "Cin" >>,
    outputs |-> << "Sum", "Cout" >>,
    wires |->
      powerWires(0, Num(14))
      \o powerWires(1, Num(14))
      \o powerWires(2, Num(14))
      \o << W(SW(0), P(0, 1), "WIRE_BLUE"),
        W(SW(1), P(0, 2), "WIRE_ORANGE"),
        W(P(0, 3), P(0, 4), "WIRE_PURPLE"),
        W(SW(2), P(0, 5), "WIRE_YELLOW"),
        W(P(0, 6), LED(0), "WIRE_GREEN"),
        W(SW(0), P(1, 1), "WIRE_BLUE"),
        W(SW(1), P(1, 2), "WIRE_ORANGE"),
        W(P(0, 3), P(1, 4), "WIRE_PURPLE"),
        W(SW(2), P(1, 5), "WIRE_YELLOW"),
        W(P(1, 3), P(2, 1), "WIRE_PURPLE"),
        W(P(1, 6), P(2, 2), "WIRE_PURPLE"),
        W(P(2, 3), LED(1), "WIRE_RED") >>,
    logic |-> Fn("full_adder") ]

half_subtractor ==
  [ title |-> "Half Subtractor",
    explanation |-> "Subtracts B from A (A-B)",
    chips |-> << [id |-> "u1", type |-> "7486", x |-> 15], [id |-> "u2", type |-> "7404", x |-> 28], [id |-> "u3", type |-> "7408", x |-> 41] >>,
    inputs |-> << "A", "B" >>,
    outputs |-> << "Diff", "Borr" >>,
    wires |->
      powerWires(0, Num(14))
      \o powerWires(1, Num(14))
      \o powerWires(2, Num(14))
      \o << W(SW(0), P(0, 1), "WIRE_BLUE"),
        W(SW(1), P(0, 2), "WIRE_ORANGE"),
        W(P(0, 3), LED(0), "WIRE_GREEN"),
        W(SW(0), P(1, 1), "WIRE_BLUE"),
        W(P(1, 2), P(2, 1), "WIRE_PURPLE"),
        W(SW(1), P(2, 2), "WIRE_ORANGE"),
        W(P(2, 3), LED(1), "WIRE_RED") >>,
    logic |-> Fn("half_subtractor") ]

full_subtractor ==
  [ title |-> "Full Subtractor",
    explanation |-> "Subtracts three bits",
    chips |-> << [id |-> "u1", type |-> "7486", x |-> 10], [id |-> "u2", type |-> "7408", x |-> 22], [id |-> "u3", type |-> "7404", x |-> 34], [id |-> "u4", type |-> "7432", x |-> 46] >>,
    inputs |-> << "A", "B", "Bin" >>,
    outputs |-> << "Diff", "Bout" >>,
    wires |->
      powerWires(0, Num(14))
      \o powerWires(1, Num(14))
      \o powerWires(2, Num(14))
      \o powerWires(3, Num(14))
      \o << W(SW(0), P(0, 1), "WIRE_BLUE"),
        W(SW(1), P(0, 2), "WIRE_ORANGE"),
        W(P(0, 3), P(0, 4), "WIRE_PURPLE"),
        W(SW(2), P(0, 5), "WIRE_GREEN"),
        W(P(0, 6), LED(0), "WIRE_GREEN"),
        W(P(2, 2), P(1, 1), "WIRE_YELLOW"),
        W(P(1, 3), P(3, 1), "WIRE_YELLOW"),
        W(P(3, 3), LED(1), "WIRE_RED") >>,
    logic |-> Fn("full_subtractor") ]

multiplier_2bit ==
  [ title |-> "2-Bit Multiplier",
    explanation |-> "Multiplies two 2-bit numbers",
    chips |-> << [id |-> "u1", type |-> "7408", x |-> 15], [id |-> "u2", type |-> "7486", x |-> 28], [id |-> "u3", type |-> "7408", x |-> 41] >>,
    inputs |-> << "A0", "A1", "B0", "B1" >>,
    outputs |-> << "P0", "P1", "P2", "P3" >>,
    wires |->
      powerWires(0, Num(14))
      \o powerWires(1, Num(14))
      \o powerWires(2, Num(14))
      \o << W(SW(0), P(0, 1), "WIRE_BLUE"),
        W(SW(2), P(0, 2), "WIRE_ORANGE"),
        W(P(0, 3), LED(0), "WIRE_GREEN"),
        W(SW(1), P(0, 4), "WIRE_PURPLE"),
        W(SW(2), P(0, 5), "WIRE_ORANGE"),
        W(SW(0), P(0, 9), "WIRE_BLUE"),
        W(SW(3), P(0, 10), "WIRE_YELLOW"),
        W(P(0, 6), P(1, 1), "WIRE_PURPLE"),
        W(P(0, 8), P(1, 2), "WIRE_PURPLE"),
        W(P(1, 3), LED(1), "WIRE_GREEN"),
        W(P(2, 6), LED(3), "WIRE_RED") >>,
    logic |-> Fn("multiplier_2bit") ]

binary_gray ==
  [ title |-> "Binary to Gray Code",
    explanation |-> "Converts Binary to Gray code",
    chips |-> << [id |-> "u1", type |-> "7486", x |-> 25] >>,
    inputs |-> << "B3", "B2", "B1", "B0" >>,
    outputs |-> << "G3", "G2", "G1", "G0" >>,
    wires |->
      powerWires(0, Num(14))
      \o << W(SW(0), LED(0), "WIRE_BLUE"),
        W(SW(0), P(0, 1), "WIRE_BLUE"),
        W(SW(1), P(0, 2), "WIRE_ORANGE"),
        W(P(0, 3), LED(1), "WIRE_GREEN"),
        W(SW(1), P(0, 4), "WIRE_ORANGE"),
        W(SW(2), P(0, 5), "WIRE_YELLOW"),
        W(P(0, 6), LED(2), "WIRE_GREEN"),
        W(SW(2), P(0, 9), "WIRE_YELLOW"),
        W(SW(3), P(0, 10), "WIRE_PURPLE"),
        W(P(0, 8), LED(3), "WIRE_GREEN") >>,
    logic |-> Fn("binary_gray") ]

mux_74153 ==
  [ title |-> "4:1 Multiplexer (74153)",
    explanation |-> "A 4:1 Multiplexer selects one of 4 data inputs (C0-C3) based on the Select lines (A, B) and sends it to the Output Y",
    chips |-> << [id |-> "u1", type |-> "74153", x |-> 25] >>,
    inputs |-> << "A", "B", "1C0", "1C1", "1C2", "1C3" >>,
    outputs |-> << "1Y" >>,
    wires |->
      powerWires(0, Num(16))
      \o << W(GND, P(0, 1), "WIRE_BLACK"),
        W(SW(0), P(0, 14), "WIRE_BLUE"),
        W(SW(1), P(0, 2), "WIRE_ORANGE"),
        W(SW(2), P(0, 6), "WIRE_GREEN"),
        W(SW(3), P(0, 5), "WIRE_GREEN"),
        W(SW(4), P(0, 4), "WIRE_GREEN"),
        W(SW(5), P(0, 3), "WIRE_GREEN"),
        W(P(0, 7), LED(0), "WIRE_RED") >>,
    logic |-> Fn("mux_74153") ]

decoder_74139 ==
  [ title |-> "2-to-4 Decoder (74139)",
    explanation |-> "Decodes a 2-bit input (A, B) to activate one of 4 output lines",
    chips |-> << [id |-> "u1", type |-> "74139", x |-> 25] >>,
    inputs |-> << "A", "B", "En" >>,
    outputs |-> << "Y0", "Y1", "Y2", "Y3" >>,
    wires |->
      powerWires(0, Num(16))
      \o << W(SW(2), P(0, 1), "WIRE_BLACK"),
        W(SW(0), P(0, 2), "WIRE_BLUE"),
        W(SW(1), P(0, 3), "WIRE_ORANGE"),
        W(P(0, 4), LED(0), "WIRE_RED"),
        W(P(0, 5), LED(1), "WIRE_RED"),
        W(P(0, 6), LED(2), "WIRE_RED"),
        W(P(0, 7), LED(3), "WIRE_RED") >>,
    logic |-> Fn("decoder_74139") ]

comparator_7485 ==
  [ title |-> "4-Bit Magnitude Comparator",
    explanation |-> "Compares two binary numbers (A and B)",
    chips |-> << [id |-> "u1", type |-> "7485", x |-> 25] >>,
    inputs |-> << "A1", "A0", "B1", "B0" >>,
    outputs |-> << "A>B", "A=B", "A<B" >>,
    wires |->
      powerWires(0, Num(16))
      \o << W(GND, P(0, 15), "WIRE_BLACK"),
        W(GND, P(0, 13), "WIRE_BLACK"),
        W(GND, P(0, 1), "WIRE_BLACK"),
        W(GND, P(0, 14), "WIRE_BLACK"),
        W(VCC, P(0, 3), "WIRE_RED"),
        W(GND, P(0, 2), "WIRE_BLACK"),
        W(GND, P(0, 4), "WIRE_BLACK"),
        W(SW(0), P(0, 12), "WIRE_BLUE"),
        W(SW(1), P(0, 10), "WIRE_BLUE"),
        W(SW(2), P(0, 11), "WIRE_ORANGE"),
        W(SW(3), P(0, 9), "WIRE_ORANGE"),
        W(P(0, 5), LED(0), "WIRE_GREEN"),
        W(P(0, 6), LED(1), "WIRE_YELLOW"),
        W(P(0, 7), LED(2), "WIRE_RED") >>,
    logic |-> Fn("comparator_7485") ]

d_ff_7474 ==
  [ title |-> "D Flip-Flop (7474)",
    explanation |-> "A D Flip-Flop stores 1 bit of data",
    chips |-> << [id |-> "u1", type |-> "7474", x |-> 25] >>,
    inputs |-> << "D", "CLK", "PRE", "CLR" >>,
    outputs |-> << "Q", "/Q" >>,
    wires |->
      powerWires(0, Num(14))
      \o << W(SW(2), P(0, 4), "WIRE_RED"),
        W(SW(3), P(0, 1), "WIRE_RED"),
        W(SW(0), P(0, 2), "WIRE_BLUE"),
        W(SW(1), P(0, 3), "WIRE_YELLOW"),
        W(P(0, 5), LED(0), "WIRE_GREEN"),
        W(P(0, 6), LED(1), "WIRE_ORANGE") >>,
    logic |-> Fn("d_ff_7474") ]

jk_ff_7476 ==
  [ title |-> "JK Flip-Flop (7476)",
    explanation |-> "JK Flip-Flop functionality",
    chips |-> << [id |-> "u1", type |-> "7476", x |-> 25] >>,
    inputs |-> << "J", "K", "CLK" >>,
    outputs |-> << "Q", "/Q" >>,
    wires |->
      powerWires(0, S(<< "7", "4", "7", "6" >>))
      \o << W(SW(0), P(0, 4), "WIRE_BLUE"),
        W(SW(1), P(0, 16), "WIRE_ORANGE"),
        W(SW(2), P(0, 1), "WIRE_YELLOW"),
        W(VCC, P(0, 2), "WIRE_RED"),
        W(VCC, P(0, 3), "WIRE_RED"),
        W(P(0, 15), LED(0), "WIRE_GREEN"),
        W(P(0, 14), LED(1), "WIRE_RED") >>,
    logic |-> Fn("jk_ff_7476") ]

counter_mod4 ==
  [ title |-> "Mod-4 Asynchronous Counter",
    explanation |-> "A 2-bit counter counts 00 -> 01 -> 10 -> 11",
    chips |-> << [id |-> "u1", type |-> "7476", x |-> 25] >>,
    inputs |-> << "CLK" >>,
    outputs |-> << "Q0", "Q1" >>,
    wires |->
      powerWires(0, S(<< "7", "4", "7", "6" >>))
      \o << W(VCC, P(0, 4), "WIRE_RED"),
        W(VCC, P(0, 16), "WIRE_RED"),
        W(VCC, P(0, 9), "WIRE_RED"),
        W(VCC, P(0, 12), "WIRE_RED"),
        W(VCC, P(0, 2), "WIRE_RED"),
        W(VCC, P(0, 3), "WIRE_RED"),
        W(VCC, P(0, 7), "WIRE_RED"),
        W(VCC, P(0, 8), "WIRE_RED"),
        W(SW(0), P(0, 1), "WIRE_YELLOW"),
        W(P(0, 15), P(0, 6), "WIRE_PURPLE"),
        W(P(0, 15), LED(0), "WIRE_GREEN"),
        W(P(0, 11), LED(1), "WIRE_GREEN") >>,
    logic |-> Fn("counter_mod4") ]

RecipeKeys ==
  { "basic_gates", "not_using_nand", "and_using_nand", "or_using_nand",
    "not_using_nor", "or_using_nor", "and_using_nor", "half_adder",
    "full_adder", "half_subtractor", "full_subtractor", "multiplier_2bit",
    "binary_gray", "mux_74153", "decoder_74139", "comparator_7485",
    "d_ff_7474", "jk_ff_7476", "counter_mod4" }

\* RECIPES[key]; undefined for a key the catalog lacks
RECIPES(key) ==
  CASE key = "basic_gates" -> basic_gates
    [] key = "not_using_nand" -> not_using_nand
    [] key = "and_using_nand" -> and_using_nand
    [] key = "or_using_nand" -> or_using_nand
    [] key = "not_using_nor" -> not_using_nor
    [] key = "or_using_nor" -> or_using_nor
    [] key = "and_using_nor" -> and_using_nor
    [] key = "half_adder" -> half_adder
    [] key = "full_adder" -> full_adder
    [] key = "half_subtractor" -> half_subtractor
    [] key = "full_subtractor" -> full_subtractor
    [] key = "multiplier_2bit" -> multiplier_2bit
    [] key = "binary_gray" -> binary_gray
    [] key = "mux_74153" -> mux_74153
    [] key = "decoder_74139" -> decoder_74139
    [] key = "comparator_7485" -> comparator_7485
    [] key = "d_ff_7474" -> d_ff_7474
    [] key = "jk_ff_7476" -> jk_ff_7476
    [] key = "counter_mod4" -> counter_mod4
    [] OTHER -> Undefined

-----------------------------------------------------------------------------
(* generateCircuitAI: what the remote generator may answer.  A response is *)
(* the parsed JSON; logicFuncString is the source text of its logic (Text) *)
(* or undefined when the field is missing.                                 *)

\* A string the model only compares as a whole.
Text(s) == [t |-> "string", v |-> s]

\* a well-formed two-input circuit
resp_and ==
  [ title |-> "AI AND", explanation |-> "AND of A and B",
    chips |-> << [id |-> "u1", type |-> "7408", x |-> 20] >>,
    inputs |-> << "A", "B" >>, outputs |-> << "Y" >>,
    wires |-> << W(SW(0), P(0, 1), "WIRE_BLUE"), W(SW(1), P(0, 2), "WIRE_BLUE"),
                 W(P(0, 3), LED(0), "WIRE_GREEN") >>,
    logicFuncString |-> Text("(i) => [i[0] & i[1]]"), logic |-> Undefined ]

\* no logicFuncString and no explanation
resp_nologic ==
  [ title |-> "AI no logic", explanation |-> "",
    chips |-> << [id |-> "u1", type |-> "7400", x |-> 25] >>,
    inputs |-> << "A", "B" >>, outputs |-> << "Y", "Z" >>,
    wires |-> << W(SW(0), P(0, 1), "WIRE_BLUE"), W(P(0, 3), LED(0), "WIRE_GREEN") >>,
    logicFuncString |-> Undefined, logic |-> Undefined ]

\* logicFuncString is an expression that is no function
resp_number ==
  [ title |-> "AI number", explanation |-> "",
    chips |-> << [id |-> "u1", type |-> "7400", x |-> 25] >>,
    inputs |-> << "A" >>, outputs |-> << "Y" >>,
    wires |-> << W(SW(0), P(0, 1), "WIRE_BLUE"), W(P(0, 3), LED(0), "WIRE_GREEN") >>,
    logicFuncString |-> Text("42"), logic |-> Undefined ]

\* logicFuncString does not parse
resp_syntax ==
  [ title |-> "AI syntax error", explanation |-> "",
    chips |-> << [id |-> "u1", type |-> "7432", x |-> 25] >>,
    inputs |-> << "A", "B" >>, outputs |-> << "Y", "Z" >>,
    wires |-> << W(SW(0), P(0, 1), "WIRE_BLUE"), W(P(0, 3), LED(0), "WIRE_GREEN") >>,
    logicFuncString |-> Text("(i) => [i[0] & i[1]"), logic |-> Undefined ]

\* the function calls an undeclared helper: it throws on every input
resp_undeclared ==
  [ title |-> "AI undeclared helper", explanation |-> "",
    chips |-> << [id |-> "u1", type |-> "7400", x |-> 25] >>,
    inputs |-> << "A", "B" >>, outputs |-> << "Y" >>,
    wires |-> << W(SW(0), P(0, 1), "WIRE_BLUE"), W(P(0, 3), LED(0), "WIRE_GREEN") >>,
    logicFuncString |-> Text("(i) => [nand(i[0], i[1])]"), logic |-> Undefined ]

\* the function throws only when its first input is set
resp_partial ==
  [ title |-> "AI partial", explanation |-> "",
    chips |-> << [id |-> "u1", type |-> "7400", x |-> 25] >>,
    inputs |-> << "A", "B" >>, outputs |-> << "Y" >>,
    wires |-> << W(SW(0), P(0, 1), "WIRE_BLUE"), W(P(0, 3), LED(0), "WIRE_GREEN") >>,
    logicFuncString |-> Text("(i) => i[0] ? [i[1].q.z] : [1]"), logic |-> Undefined ]

\* seven declared inputs: one more than the input vector holds
resp_wide ==
  [ title |-> "AI wide OR", explanation |-> "OR of A and G",
    chips |-> << [id |-> "u1", type |-> "7432", x |-> 25] >>,
    inputs |-> << "A", "B", "C", "D", "E", "F", "G" >>, outputs |-> << "Y" >>,
    wires |-> << W(SW(0), P(0, 1), "WIRE_BLUE"), W(SW(6), P(0, 2), "WIRE_BLUE"),
                 W(P(0, 3), LED(0), "WIRE_GREEN") >>,
    logicFuncString |-> Text("(i) => [i[0] | i[6]]"), logic |-> Undefined ]

ResponseKeys ==
  { "resp_and", "resp_nologic", "resp_number", "resp_syntax", "resp_undeclared",
    "resp_partial", "resp_wide" }

Response(key) ==
  CASE key = "resp_and" -> resp_and
    [] key = "resp_nologic" -> resp_nologic
    [] key = "resp_number" -> resp_number
    [] key = "resp_syntax" -> resp_syntax
    [] key = "resp_undeclared" -> resp_undeclared
    [] key = "resp_partial" -> resp_partial
    [] key = "resp_wide" -> resp_wide

\* new Function('return ' + logicFuncString)(): the value of the expression,
\* or a thrown SyntaxError
NewFunction(logicFuncString) ==
  CASE logicFuncString = Undefined -> [threw |-> FALSE, value |-> Undefined]
    [] logicFuncString = Text("42") -> [threw |-> FALSE, value |-> Num(42)]
    [] logicFuncString = Text("(i) => [i[0] & i[1]]") ->
         [threw |-> FALSE, value |-> Fn("gen_and")]
    [] logicFuncString = Text("(i) => [nand(i[0], i[1])]") ->
         [threw |-> FALSE, value |-> Fn("gen_undeclared")]
    [] logicFuncString = Text("(i) => i[0] ? [i[1].q.z] : [1]") ->
         [threw |-> FALSE, value |-> Fn("gen_partial")]
    [] logicFuncString = Text("(i) => [i[0] | i[6]]") ->
         [threw |-> FALSE, value |-> Fn("gen_wide")]
    [] OTHER -> [threw |-> TRUE, value |-> Undefined]

\* try { circuit.logic = new Function(...)(); } catch { circuit.logic = () => [0]; }
\* return circuit;
generateCircuitAI(circuit) ==
  LET f == NewFunction(circuit.logicFuncString)
  IN  [circuit EXCEPT !.logic = IF f.threw THEN Fn("gen_zero") ELSE f.value]

\* The circuit a reference stands for: a catalog entry or a generated circuit.
Recipe(ref) == IF ref \in RecipeKeys THEN RECIPES(ref) ELSE generateCircuitAI(Response(ref))

-----------------------------------------------------------------------------
(* Evaluation: the outputs useMemo *)

Returned(value) == [threw |-> FALSE, value |-> value]

Thrown == [threw |-> TRUE, value |-> << >>]

\* f(i) for a function value f: the returned array, or Thrown
Call(f, i) ==
  CASE f.t # "function" -> Thrown     \* TypeError: not a function
    [] f.v = "basic_gates" -> Returned(basic_gates_logic(i))
    [] f.v = "not_using_nand" -> Returned(not_using_nand_logic(i))
    [] f.v = "and_using_nand" -> Returned(and_using_nand_logic(i))
    [] f.v = "or_using_nand" -> Returned(or_using_nand_logic(i))
    [] f.v = "not_using_nor" -> Returned(not_using_nor_logic(i))
    [] f.v = "or_using_nor" -> Returned(or_using_nor_logic(i))
    [] f.v = "and_using_nor" -> Returned(and_using_nor_logic(i))
    [] f.v = "half_adder" -> Returned(half_adder_logic(i))
    [] f.v = "full_adder" -> Returned(full_adder_logic(i))
    [] f.v = "half_subtractor" -> Returned(half_subtractor_logic(i))
    [] f.v = "full_subtractor" -> Returned(full_subtractor_logic(i))
    [] f.v = "multiplier_2bit" -> Returned(multiplier_2bit_logic(i))
    [] f.v = "binary_gray" -> Returned(binary_gray_logic(i))
    [] f.v = "mux_74153" -> Returned(mux_74153_logic(i))
    [] f.v = "decoder_74139" -> Returned(decoder_74139_logic(i))
    [] f.v = "comparator_7485" -> Returned(comparator_7485_logic(i))
    [] f.v = "d_ff_7474" -> Returned(d_ff_7474_logic(i))
    [] f.v = "jk_ff_7476" -> Returned(jk_ff_7476_logic(i))
    [] f.v = "counter_mod4" -> Returned(counter_mod4_logic(i))
    [] f.v = "gen_zero" -> Returned(<< Num(0) >>)
    [] f.v = "gen_and" -> Returned(<< BitAnd(At(i, 0), At(i, 1)) >>)
    [] f.v = "gen_wide" -> Returned(<< BitOr(At(i, 0), At(i, 6)) >>)
    [] f.v = "gen_partial" ->
         IF Truthy(At(i, 0)) THEN Thrown ELSE Returned(<< Num(1) >>)
    [] f.v = "gen_undeclared" -> Thrown

\* activeRecipe.logic ? activeRecipe.logic(inputs) : [0,0,0,0]
outputsBody(recipe, i) ==
  IF Truthy(recipe.logic) THEN Call(recipe.logic, i) ELSE Returned(Zeros(4))

\* Mutant of outputsCallback: an arity check that answers a length mismatch
\* with zeros, one per declared output.
outputsCallback_arityChecked(recipe, i) ==
  LET r == outputsBody(recipe, i)
  IN  IF Len(i) # Len(recipe.inputs) THEN Zeros(Len(recipe.outputs))
      ELSE IF r.threw THEN Zeros(4) ELSE r.value

\* Mutant of outputsCallback: no try/catch, the exception leaves the callback.
outputsCallback_noCatch(recipe, i) ==
  LET r == outputsBody(recipe, i)
  IN  IF r.threw THEN << [escaped |-> TRUE] >> ELSE r.value

\* try { return ...; } catch { return [0,0,0,0]; }
outputsCallback(recipe, i) ==
  LET r == outputsBody(recipe, i)
  IN  IF r.threw THEN Zeros(4) ELSE r.value

\* Mutant of useMemo: inputs missing from the dependency list.
useMemo_staleInputs(held, inputsChanged, recipeChanged, recipe, i) ==
  IF recipeChanged THEN outputsCallback(recipe, i) ELSE held

\* useMemo(callback, [inputs, activeRecipe]): the callback runs again only when
\* a dependency has changed
useMemo(held, inputsChanged, recipeChanged, recipe, i) ==
  IF inputsChanged \/ recipeChanged THEN outputsCallback(recipe, i) ELSE held

-----------------------------------------------------------------------------
(* String operations of the renderer, on sequences of characters *)

\* s.includes(sub)
Includes(s, sub) ==
  \E k \in 0..(Len(s) - Len(sub)) : SubSeq(s, k + 1, k + Len(sub)) = sub

\* the position of the first "_" of s after position from, or 0
RECURSIVE FirstUnderscore(_, _)
FirstUnderscore(s, from) ==
  IF from > Len(s) THEN 0
  ELSE IF s[from] = "_" THEN from
  ELSE FirstUnderscore(s, from + 1)

\* val.split('_')[1]: the text between the first and the second "_";
\* undefined when val holds no "_"
SplitSecond(val) ==
  LET a == FirstUnderscore(val.s, 1)
      b == FirstUnderscore(val.s, a + 1)
  IN  IF a = 0 THEN Undefined
      ELSE S(SubSeq(val.s, a + 1, IF b = 0 THEN Len(val.s) ELSE b - 1))

DigitValue(ch) ==
  CASE ch = "0" -> 0 [] ch = "1" -> 1 [] ch = "2" -> 2 [] ch = "3" -> 3
    [] ch = "4" -> 4 [] ch = "5" -> 5 [] ch = "6" -> 6 [] ch = "7" -> 7
    [] ch = "8" -> 8 [] ch = "9" -> 9 [] OTHER -> -1

\* the value of the leading digits of s from position k on, given the value
\* acc of the digits read so far
RECURSIVE LeadingDigits(_, _, _)
LeadingDigits(s, k, acc) ==
  IF k > Len(s) \/ DigitValue(s[k]) < 0 THEN acc
  ELSE LeadingDigits(s, k + 1, 10 * acc + DigitValue(s[k]))

\* the first position of s at or after k that holds no blank
RECURSIVE SkipBlanks(_, _)
SkipBlanks(s, k) ==
  IF k <= Len(s) /\ s[k] = " " THEN SkipBlanks(s, k + 1) ELSE k

\* parseInt(a): leading blanks, an optional sign, then digits; NaN when no
\* digit follows (and for undefined, which reads as "undefined")
ParseInt(a) ==
  IF ~IsString(a) THEN NaN
  ELSE LET k == SkipBlanks(a.s, 1)
           signed == k <= Len(a.s) /\ a.s[k] \in {"-", "+"}
           d == IF signed THEN k + 1 ELSE k
       IN  IF d > Len(a.s) \/ DigitValue(a.s[d]) < 0 THEN NaN
           ELSE IF signed /\ a.s[k] = "-" THEN Num(0 - LeadingDigits(a.s, d, 0))
           ELSE Num(LeadingDigits(a.s, d, 0))

\* a || b
OrElse(a, b) == IF Truthy(a) THEN a ELSE b

\* val.name of an object or a string: undefined when val has no such property
Property(val, name) ==
  IF ~IsString(val) /\ name \in DOMAIN val THEN Num(val[name]) ELSE Undefined

-----------------------------------------------------------------------------
(* getCoords, Wire and the wire loop.  Coordinates are in quarter pixels.  *)

Point(x, y) == [x |-> x, y |-> y]

\* Mutant of maxBottomOf: every package taken for a 14-pin one.
maxBottomOf_always7(chip) == 7

\* maxBottom: 8 pins per row for the 16-pin packages, 7 for every other type
maxBottomOf(chip) ==
  IF chip.type = "7476" \/ chip.type = "74153" \/ chip.type = "74139"
     \/ chip.type = "7485"
  THEN 8 ELSE 7

\* the PIN branch of getCoords; it throws (TypeError) when val is undefined
\* or when chips holds no chip at the index
getCoordsPin(val, chips) ==
  IF val = Undefined THEN [threw |-> TRUE, x |-> 0, y |-> 0]
  ELSE
    LET c == OrElse(Property(val, "c"), Num(0)).v
        pin == OrElse(Property(val, "p"), Num(1)).v
    IN  IF c < 0 \/ c >= Len(chips) THEN [threw |-> TRUE, x |-> 0, y |-> 0]
        ELSE
          LET chip == chips[c + 1]
              chipX == OFF_X + (chip.x * CELL)
              chipY == OFF_Y + 6 * CELL
              maxBottom == maxBottomOf(chip)
              maxTop == maxBottom * 2
          IN  IF pin <= maxBottom
              THEN [threw |-> FALSE, x |-> Q(chipX + (pin - 1) * CELL + 5),
                    y |-> Q(chipY) + 18 * CELL]     \* chipY + 4.5 * CELL
              ELSE [threw |-> FALSE, x |-> Q(chipX + (maxTop - pin) * CELL + 5),
                    y |-> Q(chipY) - 2 * CELL]      \* chipY - 0.5 * CELL

\* the body of getCoords' try block; the final return def when no type matches
getCoordsTry(type, val, chips) ==
  CASE type = "RAIL_VCC" ->
         [threw |-> FALSE, x |-> Q(OFF_X + 10), y |-> Q(OFF_Y) + 6 * CELL]
    [] type = "RAIL_GND" ->
         [threw |-> FALSE, x |-> Q(OFF_X + 10), y |-> Q(OFF_Y) + 70 * CELL]
    [] type = "SW" ->
         [threw |-> FALSE,
          x |-> Q(OFF_X + (20 + OrElse(ParseInt(SplitSecond(val)), Num(0)).v * 2) * CELL),
          y |-> Q(OFF_Y + 16 * CELL)]
    [] type = "LED" ->
         [threw |-> FALSE,
          x |-> Q(OFF_X + (55 * CELL)),
          y |-> Q(OFF_Y + (4 + OrElse(ParseInt(SplitSecond(val)), Num(0)).v * 3) * CELL)]
    [] type = "PIN" -> getCoordsPin(val, chips)
    [] OTHER -> [threw |-> FALSE, x |-> 0, y |-> 0]

\* Mutant of getCoords: no try/catch, the exception leaves getCoords.
getCoords_noCatch(type, val, chips) == getCoordsTry(type, val, chips)

\* getCoords(type, val, chips): catch { return def; }
getCoords(type, val, chips) ==
  LET r == getCoordsTry(type, val, chips)
  IN  IF r.threw THEN Point(0, 0) ELSE Point(r.x, r.y)

Null == [null |-> TRUE]

\* Wire({p1, p2, color}): null, or the path M p1 L (p1.x, midY + jitter)
\* L (p2.x, midY + jitter) L p2 with its stroke
Wire(p1, p2, color) ==
  IF p1.x = 0 \/ p2.x = 0 THEN Null
  ELSE LET midY == (p1.y + p2.y) \div 2
           jitter == Q((p1.x \div 4) % 5)
       IN  [d |-> << p1.x, p1.y, p1.x, midY + jitter, p2.x, midY + jitter, p2.x, p2.y >>,
            stroke |-> color]

\* p1 of the wire loop: the coordinate of the source w.s
SourceCoords(w, chips) ==
  IF w.s = VCC THEN getCoords("RAIL_VCC", Undefined, Undefined)
  ELSE IF w.s = GND THEN getCoords("RAIL_GND", Undefined, Undefined)
  ELSE IF IsString(w.s) /\ Includes(w.s.s, << "S", "W" >>) THEN getCoords("SW", w.s, Undefined)
  ELSE getCoords("PIN", w.s, chips)

\* p2 of the wire loop: the coordinate of the destination w.e
DestCoords(w, chips) ==
  IF IsString(w.e) /\ Includes(w.e.s, << "L", "E", "D" >>) THEN getCoords("LED", w.e, Undefined)
  ELSE getCoords("PIN", w.e, chips)

\* an exception leaving getCoords would leave the map callback and the render
Escaped(p) == "threw" \in DOMAIN p /\ p.threw

Crashed == << [crashed |-> TRUE] >>

\* activeRecipe.wires.map((w, i) => <Wire p1 p2 color />)
WireLoop(recipe) ==
  LET p1(k) == SourceCoords(recipe.wires[k], recipe.chips)
      p2(k) == DestCoords(recipe.wires[k], recipe.chips)
      color(k) == OrElse(COLORS(recipe.wires[k].color), COLORS("WIRE_GREEN"))
  IN  IF \E k \in 1..Len(recipe.wires) : Escaped(p1(k)) \/ Escaped(p2(k))
      THEN Crashed
      ELSE [k \in 1..Len(recipe.wires) |-> Wire(p1(k), p2(k), color(k))]

-----------------------------------------------------------------------------
(* handleSearch: the query text and its routing to a catalog key *)

LowerChar(ch) ==
  CASE ch = "A" -> "a" [] ch = "B" -> "b" [] ch = "C" -> "c" [] ch = "D" -> "d"
    [] ch = "E" -> "e" [] ch = "F" -> "f" [] ch = "G" -> "g" [] ch = "H" -> "h"
    [] ch = "I" -> "i" [] ch = "J" -> "j" [] ch = "K" -> "k" [] ch = "L" -> "l"
    [] ch = "M" -> "m" [] ch = "N" -> "n" [] ch = "O" -> "o" [] ch = "P" -> "p"
    [] ch = "Q" -> "q" [] ch = "R" -> "r" [] ch = "S" -> "s" [] ch = "T" -> "t"
    [] ch = "U" -> "u" [] ch = "V" -> "v" [] ch = "W" -> "w" [] ch = "X" -> "x"
    [] ch = "Y" -> "y" [] ch = "Z" -> "z"
    [] OTHER -> ch

\* s.toLowerCase()
ToLowerCase(s) == [k \in 1..Len(s) |-> LowerChar(s[k])]

\* the last position of s at or before k that holds no blank, or 0
RECURSIVE LastNonBlank(_, _)
LastNonBlank(s, k) ==
  IF k >= 1 /\ s[k] = " " THEN LastNonBlank(s, k - 1) ELSE k

\* s.trim()
Trim(s) == SubSeq(s, SkipBlanks(s, 1), LastNonBlank(s, Len(s)))

\* the keyword rules of handleSearch, first match first; "" stands for null
keyOf(q) ==
  IF Includes(q, << "m", "u", "x" >>) \/ Includes(q, << "1", "5", "3" >>) THEN "mux_74153"
  ELSE IF Includes(q, << "d", "e", "c", "o", "d" >>) \/ Includes(q, << "1", "3", "9" >>) THEN "decoder_74139"
  ELSE IF Includes(q, << "c", "o", "m", "p", "a", "r" >>) \/ Includes(q, << "7", "4", "8", "5" >>) THEN "comparator_7485"
  ELSE IF Includes(q, << "j", "k" >>) \/ Includes(q, << "7", "4", "7", "6" >>) THEN "jk_ff_7476"
  ELSE IF Includes(q, << "d", " ", "f", "l", "i", "p" >>) \/ Includes(q, << "7", "4", "7", "4" >>) THEN "d_ff_7474"
  ELSE IF Includes(q, << "c", "o", "u", "n", "t", "e", "r" >>) THEN "counter_mod4"
  ELSE IF Includes(q, << "g", "r", "a", "y" >>) THEN "binary_gray"
  ELSE IF Includes(q, << "s", "u", "b" >>) /\ Includes(q, << "f", "u", "l", "l" >>) THEN "full_subtractor"
  ELSE IF Includes(q, << "s", "u", "b" >>) /\ Includes(q, << "h", "a", "l", "f" >>) THEN "half_subtractor"
  ELSE IF Includes(q, << "a", "d", "d" >>) /\ Includes(q, << "f", "u", "l", "l" >>) THEN "full_adder"
  ELSE IF Includes(q, << "a", "d", "d" >>) /\ Includes(q, << "h", "a", "l", "f" >>) THEN "half_adder"
  ELSE IF Includes(q, << "m", "u", "l" >>) THEN "multiplier_2bit"
  ELSE IF Includes(q, << "n", "a", "n", "d" >>) /\ Includes(q, << "n", "o", "t" >>) THEN "not_using_nand"
  ELSE IF Includes(q, << "n", "a", "n", "d" >>) /\ Includes(q, << "a", "n", "d" >>) THEN "and_using_nand"
  ELSE IF Includes(q, << "n", "a", "n", "d" >>) /\ Includes(q, << "o", "r" >>) THEN "or_using_nand"
  ELSE IF Includes(q, << "n", "o", "r" >>) /\ Includes(q, << "n", "o", "t" >>) THEN "not_using_nor"
  ELSE IF Includes(q, << "n", "o", "r" >>) /\ Includes(q, << "o", "r" >>) THEN "or_using_nor"
  ELSE IF Includes(q, << "n", "o", "r" >>) /\ Includes(q, << "a", "n", "d" >>) THEN "and_using_nor"
  ELSE IF Includes(q, << "g", "a", "t", "e" >>) \/ Includes(q, << "l", "o", "g", "i", "c" >>) THEN "basic_gates"
  ELSE ""

\* what the user may type into the search box
Queries ==
  { << "M", "u", "x" >>,
    << "d", "e", "c", "o", "d", "e", "r" >>,
    << "c", "o", "m", "p", "a", "r", "a", "t", "o", "r" >>,
    << "J", "K", " ", "F", "l", "i", "p", " ", "F", "l", "o", "p" >>,
    << "d", " ", "f", "l", "i", "p", " ", "f", "l", "o", "p" >>,
    << "c", "o", "u", "n", "t", "e", "r" >>,
    << "g", "r", "a", "y", " ", "c", "o", "d", "e" >>,
    << "f", "u", "l", "l", " ", "s", "u", "b", "t", "r", "a", "c", "t", "o", "r" >>,
    << "h", "a", "l", "f", " ", "s", "u", "b", "t", "r", "a", "c", "t", "o", "r" >>,
    << "F", "u", "l", "l", " ", "A", "d", "d", "e", "r" >>,
    << "h", "a", "l", "f", " ", "a", "d", "d", "e", "r" >>,
    << "2", "-", "b", "i", "t", " ", "M", "u", "l", "t", "i", "p", "l", "i", "e", "r" >>,
    << "n", "o", "t", " ", "u", "s", "i", "n", "g", " ", "n", "a", "n", "d" >>,
    << "a", "n", "d", " ", "u", "s", "i", "n", "g", " ", "n", "a", "n", "d" >>,
    << "o", "r", " ", "u", "s", "i", "n", "g", " ", "n", "a", "n", "d" >>,
    << "n", "o", "t", " ", "u", "s", "i", "n", "g", " ", "n", "o", "r" >>,
    << "o", "r", " ", "u", "s", "i", "n", "g", " ", "n", "o", "r" >>,
    << "a", "n", "d", " ", "u", "s", "i", "n", "g", " ", "n", "o", "r" >>,
    << " ", "l", "o", "g", "i", "c", " ", "g", "a", "t", "e", "s", " " >>,
    << "s", "r", " ", "l", "a", "t", "c", "h" >>,
    << "x", "n", "o", "r" >>,
    << " ", " ", " " >>,
    << >> }

-----------------------------------------------------------------------------
(* The component CircuitDesignerPro: state, handlers and what the render   *)
(* that follows each of them recomputes (the outputs useMemo, the          *)
(* explanation effect).                                                    *)

MSG_NO_KEY == "Please set API Key in .env"

MSG_NOT_FOUND == "Circuit not found in library and AI could not generate it."

\* what generateCircuitAI may resolve to once its request is under way: null
\* after a failed request or an unparsable answer, or a circuit.  (Without an
\* API key it returns null before any request: see handleSearch.)
REQUEST_FAILED == "request failed"

GenerationResults == {REQUEST_FAILED} \cup ResponseKeys

\* explainCircuitAI: its answers
MSG_SET_KEY == "Please set API Key."

MSG_EXPLAIN_ERROR == "Error explaining."

\* data.candidates[0].content.parts[0].text for the request "Explain: {title,
\* chips, desc}" of a circuit: a text about that circuit
ExplainText(circuit) == "Explained: " \o circuit.title

\* no explainCircuitAI call in flight
NoCall == ""

NoBoard == [chips |-> << >>, wires |-> << >>]

NotDrawn == [rendered |-> FALSE, out |-> << >>]

\* useEffect(() => { if (activeRecipe.explanation) setExplanation(...); else
\* setExplanation(''); }, [activeRecipe]): runs when activeRecipe has changed
useEffect(held, recipeChanged, recipe) ==
  IF recipeChanged THEN (IF recipe.explanation # "" THEN recipe.explanation ELSE "")
  ELSE held

Init ==
  /\ activeRecipe = "basic_gates"
  /\ inputs = Zeros(6)
  /\ outputs = outputsCallback(Recipe("basic_gates"), Zeros(6))
  /\ loading = FALSE
  /\ explanation = useEffect("", TRUE, Recipe("basic_gates"))
  /\ alerts = {}
  /\ apiKey \in BOOLEAN
  /\ explaining = FALSE
  /\ explainCall = NoCall
  /\ board = NoBoard
  /\ drawn = NotDrawn

\* q = search.trim().toLowerCase() and the key it routes to, tabulated for the
\* queries of the model
SearchText == [search \in Queries |-> ToLowerCase(Trim(search))]

SearchKey == [search \in Queries |-> keyOf(SearchText[search])]

\* handleSearch up to its await (the whole of it for a catalog match).  The
\* LOAD button is disabled while loading.  Without an API key generateCircuitAI
\* alerts and returns null at once, and handleSearch resumes in the same task:
\* no other handler runs in between.
handleSearch(search) ==
  /\ ~loading
  /\ LET q == SearchText[search]
         key == SearchKey[search]
     IN  IF q = << >> THEN
           UNCHANGED << activeRecipe, inputs, outputs, loading, explanation, alerts >>
         ELSE IF key # "" /\ RECIPES(key) # Undefined THEN
           /\ activeRecipe' = key
           /\ inputs' = Zeros(6)
           /\ loading' = FALSE
           /\ explanation' = useEffect("", key # activeRecipe, RECIPES(key))
           /\ outputs' = useMemo(outputs, TRUE, key # activeRecipe, RECIPES(key), Zeros(6))
           /\ UNCHANGED alerts
         ELSE IF ~apiKey THEN
           /\ loading' = FALSE
           /\ explanation' = ""
           /\ alerts' = alerts \cup {MSG_NO_KEY, MSG_NOT_FOUND}
           /\ UNCHANGED << activeRecipe, inputs, outputs >>
         ELSE
           /\ loading' = TRUE
           /\ explanation' = ""
           /\ UNCHANGED << activeRecipe, inputs, outputs, alerts >>
  /\ UNCHANGED << apiKey, explaining, explainCall, board, drawn >>

\* Mutant of handleSearchResume: a failed generation falls back to the default
\* circuit.
handleSearchResume_fallbackCircuit(result) ==
  /\ loading
  /\ LET next == IF result \in ResponseKeys THEN result ELSE "basic_gates"
     IN  /\ activeRecipe' = next
         /\ explanation' = useEffect(explanation, TRUE, Recipe(next))
         /\ outputs' = useMemo(outputs, FALSE, TRUE, Recipe(next), inputs)
         /\ alerts' = IF result \in ResponseKeys THEN alerts ELSE alerts \cup {MSG_NOT_FOUND}
  /\ loading' = FALSE
  /\ UNCHANGED << inputs, apiKey, explaining, explainCall, board, drawn >>

\* handleSearch from the point generateCircuitAI resolves
handleSearchResume(result) ==
  /\ loading
  /\ IF result \in ResponseKeys THEN
       /\ activeRecipe' = result
       /\ explanation' = useEffect(explanation, TRUE, Recipe(result))
       /\ outputs' = useMemo(outputs, FALSE, TRUE, Recipe(result), inputs)
       /\ UNCHANGED << inputs, alerts >>
     ELSE
       /\ alerts' = alerts \cup {MSG_NOT_FOUND}
       /\ UNCHANGED << activeRecipe, inputs, outputs, explanation >>
  /\ loading' = FALSE
  /\ UNCHANGED << apiKey, explaining, explainCall, board, drawn >>

\* handleExplain up to its await.  The button is rendered only while the
\* explanation is empty and is disabled while explaining.  Without an API key
\* explainCircuitAI returns its message at once and handleExplain resumes in
\* the same task.
handleExplain ==
  /\ explanation = ""
  /\ ~explaining
  /\ IF ~apiKey THEN
       /\ explanation' = MSG_SET_KEY
       /\ UNCHANGED << explaining, explainCall >>
     ELSE
       /\ explaining' = TRUE
       /\ explainCall' = activeRecipe
       /\ UNCHANGED explanation
  /\ UNCHANGED << activeRecipe, inputs, outputs, loading, alerts, apiKey, board, drawn >>

\* handleExplain from the point explainCircuitAI(activeRecipe) resolves, for
\* the circuit that was active when the call was made: setExplanation(text);
\* setExplaining(false)
handleExplainResume(ok) ==
  /\ explaining
  /\ explanation' = IF ok THEN ExplainText(Recipe(explainCall)) ELSE MSG_EXPLAIN_ERROR
  /\ explaining' = FALSE
  /\ explainCall' = NoCall
  /\ UNCHANGED << activeRecipe, inputs, outputs, loading, alerts, apiKey, board, drawn >>

\* onClick of input i: n = [...inputs]; n[i] = n[i] ? 0 : 1; setInputs(n)
toggleInput(i) ==
  /\ i \in 0..(Len(Recipe(activeRecipe).inputs) - 1)
  /\ inputs' = ArraySet(inputs, Num(i), IF Truthy(At(inputs, i)) THEN Num(0) ELSE Num(1))
  /\ outputs' = useMemo(outputs, TRUE, FALSE, Recipe(activeRecipe), inputs')
  /\ UNCHANGED << activeRecipe, loading, explanation, alerts, apiKey, explaining,
                  explainCall, board, drawn >>

\* the most inputs a circuit declares
MaxInputs == 7

Next ==
  \/ \E search \in Queries : handleSearch(search)
  \/ \E result \in GenerationResults : handleSearchResume(result)
  \/ \E i \in 0..(MaxInputs - 1) : toggleInput(i)
  \/ handleExplain
  \/ \E ok \in BOOLEAN : handleExplainResume(ok)

Spec == Init /\ [][Next]_vars

-----------------------------------------------------------------------------
(* Evaluation as a function: every catalog circuit on every input vector   *)
(* of six entries 0 or 1, the shape the component keeps.                   *)

Bits == {Num(0), Num(1)}

InputVectors == [1..6 -> Bits]

NotEvaluated == << [evaluated |-> FALSE] >>

InitEval ==
  /\ activeRecipe \in RecipeKeys
  /\ inputs \in InputVectors
  /\ outputs = NotEvaluated
  /\ loading = FALSE
  /\ explanation = ""
  /\ alerts = {}
  /\ apiKey = TRUE
  /\ explaining = FALSE
  /\ explainCall = NoCall
  /\ board = NoBoard
  /\ drawn = NotDrawn

\* the first render: the outputs useMemo runs its callback
Evaluate ==
  /\ outputs = NotEvaluated
  /\ outputs' = useMemo(outputs, TRUE, TRUE, Recipe(activeRecipe), inputs)
  /\ UNCHANGED << activeRecipe, inputs, loading, explanation, alerts, apiKey,
                  explaining, explainCall, board, drawn >>

SpecEval == InitEval /\ [][Evaluate]_vars

-----------------------------------------------------------------------------
(* Rendering as a function: the wire loop on the catalog circuits, on the  *)
(* generated circuits and on boards of up to MaxWires wires over a fixed   *)
(* pair of chips, with endpoints of every form in either position.         *)

MaxWires == 2

BoardChips ==
  << [id |-> "u1", type |-> "7400", x |-> 20], [id |-> "u2", type |-> "74153", x |-> 35] >>

\* {c: 2, p: 1} names no chip of BoardChips
Sources == {VCC, SW(1), LED(1), P(1, 1), P(2, 1)}

\* {c: 1, p: 17} names no pin of the 16-pin chip u2
Destinations == {LED(1), GND, SW(1), P(1, 16), P(1, 17), P(2, 1)}

BoardWires == {W(s, e, "WIRE_BLUE") : s \in Sources, e \in Destinations}

RECURSIVE WireLists(_)
WireLists(n) ==
  IF n = 0 THEN {<< >>}
  ELSE WireLists(n - 1)
         \cup {Append(ws, w) : ws \in {l \in WireLists(n - 1) : Len(l) = n - 1}, w \in BoardWires}

BoardOf(recipe) == [chips |-> recipe.chips, wires |-> recipe.wires]

Boards ==
  {BoardOf(Recipe(ref)) : ref \in RecipeKeys \cup ResponseKeys}
    \cup {[chips |-> BoardChips, wires |-> ws] : ws \in WireLists(MaxWires)}

InitRender ==
  /\ board \in Boards
  /\ drawn = NotDrawn
  /\ activeRecipe = "basic_gates"
  /\ inputs = Zeros(6)
  /\ outputs = NotEvaluated
  /\ loading = FALSE
  /\ explanation = ""
  /\ alerts = {}
  /\ apiKey = TRUE
  /\ explaining = FALSE
  /\ explainCall = NoCall

\* the render: the wire loop maps every wire of the board
Render ==
  /\ ~drawn.rendered
  /\ drawn' = [rendered |-> TRUE, out |-> WireLoop(board)]
  /\ UNCHANGED << activeRecipe, inputs, outputs, loading, explanation, alerts,
                  apiKey, explaining, explainCall, board >>

SpecRender == InitRender /\ [][Render]_vars

-----------------------------------------------------------------------------
(* Properties *)

AllZero(v) == Len(v) >= 1 /\ \A k \in 1..Len(v) : v[k] = Num(0)

ArityMismatch == Len(inputs) # Len(Recipe(activeRecipe).inputs)

C2_MalformedLogicYieldsZeros ==
  LET logic == Recipe(activeRecipe).logic
  IN  (~Truthy(logic) \/ logic.t # "function" \/ Call(logic, inputs).threw)
        => AllZero(outputs)

\* C2 witness: a generated logic that throws only when its first input is set,
\* with that input set.
C2_Witness ==
  /\ activeRecipe = "resp_partial"
  /\ Truthy(At(inputs, 0))
  /\ Call(Recipe(activeRecipe).logic, inputs).threw
  /\ outputs = Zeros(4)

Evaluated == outputs # NotEvaluated

\* the input bit at 0-based index k, as a number
Bit(k) == ToInt32(At(inputs, k))

\* C3: the universal-gate circuits reproduce their target gate on every input
\* combination: AND for and_using_nand and and_using_nor, OR for or_using_nand
\* and or_using_nor, NOT for not_using_nand and not_using_nor.
C3_UniversalGates ==
  Evaluated =>
    /\ activeRecipe \in {"and_using_nand", "and_using_nor"} =>
         Len(outputs) = 1 /\ (Truthy(outputs[1]) <=> (Bit(0) = 1 /\ Bit(1) = 1))
    /\ activeRecipe \in {"or_using_nand", "or_using_nor"} =>
         Len(outputs) = 1 /\ (Truthy(outputs[1]) <=> (Bit(0) = 1 \/ Bit(1) = 1))
    /\ activeRecipe \in {"not_using_nand", "not_using_nor"} =>
         Len(outputs) = 1 /\ (Truthy(outputs[1]) <=> Bit(0) = 0)

\* C3 witness: or_using_nand evaluated on A = 0, B = 1 lights its output.
C3_Witness ==
  /\ Evaluated
  /\ activeRecipe = "or_using_nand"
  /\ Bit(0) = 0 /\ Bit(1) = 1
  /\ Truthy(outputs[1])

\* C4: half_adder gives Sum + 2*Cout = A + B and full_adder gives
\* Sum + 2*Cout = A + B + Cin, on every input combination.
C4_Adders ==
  Evaluated =>
    /\ activeRecipe = "half_adder" =>
         /\ Len(outputs) = 2
         /\ outputs[1].t = "number" /\ outputs[2].t = "number"
         /\ outputs[1].v + 2 * outputs[2].v = Bit(0) + Bit(1)
    /\ activeRecipe = "full_adder" =>
         /\ Len(outputs) = 2
         /\ outputs[1].t = "number" /\ outputs[2].t = "number"
         /\ outputs[1].v + 2 * outputs[2].v = Bit(0) + Bit(1) + Bit(2)

\* C4 witness: full_adder evaluated on (1,1,1) gives (1,1).
C4_Witness ==
  /\ Evaluated
  /\ activeRecipe = "full_adder"
  /\ Bit(0) = 1 /\ Bit(1) = 1 /\ Bit(2) = 1
  /\ outputs = << Num(1), Num(1) >>

\* C5: multiplier_2bit's output bits P0..P3 (P0 least significant) decode to
\* (A0 + 2*A1) * (B0 + 2*B1) on every input combination.
C5_Multiplier ==
  (Evaluated /\ activeRecipe = "multiplier_2bit") =>
    /\ Len(outputs) = 4
    /\ \A k \in 1..4 : outputs[k] \in {Num(0), Num(1)}
    /\ outputs[1].v + 2 * outputs[2].v + 4 * outputs[3].v + 8 * outputs[4].v
         = (Bit(0) + 2 * Bit(1)) * (Bit(2) + 2 * Bit(3))

\* C5 witness: A = 3, B = 1 gives P0..P3 = 1,1,0,0.
C5_Witness ==
  /\ Evaluated
  /\ activeRecipe = "multiplier_2bit"
  /\ Bit(0) = 1 /\ Bit(1) = 1 /\ Bit(2) = 1 /\ Bit(3) = 0
  /\ outputs = << Num(1), Num(1), Num(0), Num(0) >>

\* C6: mux_74153's single output is the data line 1C(sel), sel = 2*B + A, and
\* every vector that agrees on A, B and that data line gives the same output.
C6_Mux ==
  (Evaluated /\ activeRecipe = "mux_74153") =>
    LET sel == 2 * Bit(1) + Bit(0)
    IN  /\ outputs = << At(inputs, 2 + sel) >>
        /\ \A v \in InputVectors :
             (v[1] = inputs[1] /\ v[2] = inputs[2] /\ v[3 + sel] = inputs[3 + sel])
               => outputsCallback(Recipe(activeRecipe), v) = outputs

\* C6 witness: A = 1, B = 1, 1C3 = 1 and the other data lines 0 gives 1.
C6_Witness ==
  /\ Evaluated
  /\ activeRecipe = "mux_74153"
  /\ inputs = << Num(1), Num(1), Num(0), Num(0), Num(0), Num(1) >>
  /\ outputs = << Num(1) >>

\* an endpoint {c, p} whose chip index names no chip of the list
InvalidChipIndex(v, chips) ==
  ~IsString(v) /\ "c" \in DOMAIN v /\ (v.c < 0 \/ v.c >= Len(chips))

\* the sequence s without its k-th element
RemoveAt(s, k) == [j \in 1..(Len(s) - 1) |-> IF j < k THEN s[j] ELSE s[j + 1]]

\* C7: a wire with an endpoint {c, p} whose chip index is not a valid index
\* into the chip list is not rendered (the endpoint resolves to the zero
\* coordinate), and every other wire is rendered exactly as it would be
\* without the invalid wire.
C7_InvalidChipIndexSuppressed ==
  drawn.rendered =>
    /\ Len(drawn.out) = Len(board.wires)
    /\ \A k \in 1..Len(board.wires) :
         LET w == board.wires[k]
         IN  /\ InvalidChipIndex(w.s, board.chips) =>
                  SourceCoords(w, board.chips) = Point(0, 0)
             /\ InvalidChipIndex(w.e, board.chips) =>
                  DestCoords(w, board.chips) = Point(0, 0)
             /\ (InvalidChipIndex(w.s, board.chips) \/ InvalidChipIndex(w.e, board.chips)) =>
                  /\ drawn.out[k] = Null
                  /\ RemoveAt(drawn.out, k)
                       = WireLoop([board EXCEPT !.wires = RemoveAt(board.wires, k)])

\* C7 witness: a rendered board whose first wire ends on chip index 2 of a
\* two-chip list and whose second wire is drawn.
C7_Witness ==
  /\ drawn.rendered
  /\ Len(board.wires) = 2
  /\ Len(board.chips) = 2
  /\ board.wires[1].e = P(2, 1)
  /\ drawn.out[1] = Null
  /\ drawn.out[2] # Null

PinsPerRow(type) == IF type \in {"7476", "74153", "74139", "7485"} THEN 8 ELSE 7

\* C9: with N pins per row (8 for 7476, 74153, 74139 and 7485, 7 otherwise),
\* pins 1..N lie on the bottom row with x increasing by one grid cell per pin,
\* pins N+1..2N on the top row in reverse order, so pin p and pin 2N+1-p share
\* their x; all top-row pins share one y and all bottom-row pins another; a
\* drawn pin-to-pin wire starts and ends on these coordinates.
C9_PinGeometry ==
  LET at(c, p) == getCoords("PIN", P(c, p), board.chips)
  IN  /\ \A c \in 0..(Len(board.chips) - 1) :
           LET N == PinsPerRow(board.chips[c + 1].type)
           IN  /\ at(c, 1).x = Q(OFF_X + board.chips[c + 1].x * CELL + 5)
               /\ \A p \in 1..(N - 1) : at(c, p + 1).x = at(c, p).x + Q(CELL)
               /\ \A p \in 1..N : at(c, 2 * N + 1 - p).x = at(c, p).x
               /\ \A p \in 1..N : at(c, p).y = at(c, 1).y
               /\ \A p \in (N + 1)..(2 * N) : at(c, p).y = at(c, 2 * N).y
               /\ at(c, 2 * N).y < at(c, 1).y
      /\ drawn.rendered =>
           \A k \in 1..Len(board.wires) :
             LET w == board.wires[k]
             IN  (/\ ~IsString(w.s) /\ ~IsString(w.e)
                  /\ ~InvalidChipIndex(w.s, board.chips)
                  /\ ~InvalidChipIndex(w.e, board.chips)
                  /\ k <= Len(drawn.out))
                   => /\ drawn.out[k] # Null
                      /\ drawn.out[k].d[1] = at(w.s.c, w.s.p).x
                      /\ drawn.out[k].d[2] = at(w.s.c, w.s.p).y
                      /\ drawn.out[k].d[7] = at(w.e.c, w.e.p).x
                      /\ drawn.out[k].d[8] = at(w.e.c, w.e.p).y

\* C9 witness: a drawn wire from pin 1 to pin 16 of a 74153: same x, bottom
\* row to top row.
C9_Witness ==
  /\ drawn.rendered
  /\ Len(board.wires) >= 1
  /\ board.chips = BoardChips
  /\ board.wires[1].s = P(1, 1) /\ board.wires[1].e = P(1, 16)
  /\ drawn.out[1] # Null
  /\ drawn.out[1].d[1] = drawn.out[1].d[7]
  /\ drawn.out[1].d[2] > drawn.out[1].d[8]

\* the coordinate of an endpoint token, whatever its position in the wire
TokenCoords(v, chips) ==
  IF v = VCC THEN Point(Q(OFF_X + 10), Q(OFF_Y) + 6 * CELL)
  ELSE IF v = GND THEN Point(Q(OFF_X + 10), Q(OFF_Y) + 70 * CELL)
  ELSE IF IsString(v) /\ v.s[1] = "S"
    THEN Point(Q(OFF_X + (20 + DigitValue(v.s[Len(v.s)]) * 2) * CELL), Q(OFF_Y + 16 * CELL))
  ELSE IF IsString(v)
    THEN Point(Q(OFF_X + 55 * CELL), Q(OFF_Y + (4 + DigitValue(v.s[Len(v.s)]) * 3) * CELL))
  ELSE getCoords("PIN", v, chips)

PinOutOfRange(v, chips) ==
  /\ ~IsString(v) /\ "c" \in DOMAIN v /\ "p" \in DOMAIN v
  /\ ~InvalidChipIndex(v, chips)
  /\ v.p \notin 1..(2 * PinsPerRow(chips[v.c + 1].type))

\* C11, as claimed: a wire with an endpoint {c, p} whose chip exists but whose
\* pin number lies outside 1..2N is treated as an invalid reference and is not
\* rendered.  getCoords has no range check and the wire is drawn.
C11_PinOutOfRangeSuppressed ==
  drawn.rendered =>
    \A k \in 1..Len(board.wires) :
      (PinOutOfRange(board.wires[k].s, board.chips)
         \/ PinOutOfRange(board.wires[k].e, board.chips))
        => drawn.out[k] = Null

\* the queries that match no catalog key
UnmatchedQueries == {search \in Queries : SearchText[search] # << >> /\ SearchKey[search] = ""}

\* C12: when a search matches no catalog key and generation fails (returns
\* null), the not-found alert is shown and the step leaves the active circuit,
\* the input vector and the outputs as they were; so does the step that sent
\* the request.
C12_GenerationFailureSurfaced ==
  [][ /\ (\E search \in UnmatchedQueries : handleSearch(search)) =>
           /\ activeRecipe' = activeRecipe
           /\ inputs' = inputs
           /\ outputs' = outputs
           /\ ~apiKey => (MSG_NOT_FOUND \in alerts' /\ ~loading')
      /\ handleSearchResume(REQUEST_FAILED) =>
           /\ activeRecipe' = activeRecipe
           /\ inputs' = inputs
           /\ outputs' = outputs
           /\ MSG_NOT_FOUND \in alerts'
           /\ ~loading' ]_vars

\* C12 witness: the multiplexer still active with a switch set, after a search
\* that ended in the not-found alert.
C12_Witness ==
  /\ MSG_NOT_FOUND \in alerts
  /\ ~loading
  /\ apiKey
  /\ activeRecipe = "mux_74153"
  /\ Truthy(inputs[1])
  /\ explanation = ""

\* the input vector with the entry at 0-based index k toggled
Toggled(v, k) == [v EXCEPT ![k + 1] = IF Truthy(v[k + 1]) THEN Num(0) ELSE Num(1)]

TruthyCount(v) == Cardinality({k \in 1..Len(v) : Truthy(v[k])})

\* C14, as claimed: decoder_74139 (inputs A, B, En) uses one polarity for
\* every input combination: with En = 0 exactly the output indexed by
\* sel = 2*B + A is truthy, with En = 1 no output is truthy.  The disabled
\* branch returns [1,1,1,1].
C14_DecoderOnePolarity ==
  (Evaluated /\ activeRecipe = "decoder_74139") =>
    /\ Len(outputs) = 4
    /\ Bit(2) = 0 =>
         \A k \in 0..3 : Truthy(outputs[k + 1]) <=> (k = 2 * Bit(1) + Bit(0))
    /\ Bit(2) = 1 => TruthyCount(outputs) = 0

\* the PinRef invariant of an endpoint: a token, or {c, p} with c an index
\* into chips and p in 1..2N for that chip's package
ValidPinRef(v, chips) ==
  \/ IsString(v)
  \/ /\ "c" \in DOMAIN v /\ "p" \in DOMAIN v
     /\ v.c \in 0..(Len(chips) - 1)
     /\ v.p \in 1..(2 * PinsPerRow(chips[v.c + 1].type))

IsCatalogBoard == \E key \in RecipeKeys : board = BoardOf(RECIPES(key))

\* C15: every wire endpoint {c, p} of every catalog circuit, those produced
\* by powerWires included, satisfies the PinRef invariant; hence every catalog
\* wire resolves to non-zero coordinates and is rendered.
C15_CatalogPinRefs ==
  IsCatalogBoard =>
    /\ \A k \in 1..Len(board.wires) :
         /\ ValidPinRef(board.wires[k].s, board.chips)
         /\ ValidPinRef(board.wires[k].e, board.chips)
         /\ SourceCoords(board.wires[k], board.chips).x # 0
         /\ DestCoords(board.wires[k], board.chips).x # 0
    /\ drawn.rendered =>
         /\ Len(drawn.out) = Len(board.wires)
         /\ \A k \in 1..Len(drawn.out) : drawn.out[k] # Null

\* C15 witness: jk_ff_7476 rendered, with its power wire to pin 5 drawn.
C15_Witness ==
  /\ drawn.rendered
  /\ board = BoardOf(jk_ff_7476)
  /\ board.wires[1].e = P(0, 5)
  /\ drawn.out[1] # Null

\* C16, as claimed: the keyword routing can select every catalog circuit: for
\* each of the 19 keys there is a non-empty query that handleSearch's
\* first-match rules resolve to that key.  No query reaches or_using_nand or
\* and_using_nor: a text that includes "nand" includes "and", one that
\* includes "nor" includes "or", and those rules come first.
C16_EveryKeyRoutable ==
  ~loading =>
    \A key \in RecipeKeys :
      \E search \in Queries :
        /\ SearchText[search] # << >>
        /\ SearchKey[search] = key
        /\ ENABLED (handleSearch(search) /\ activeRecipe' = key)

\* the queries that match a catalog key
MatchedQueries == {search \in Queries : SearchText[search] # << >> /\ SearchKey[search] # ""}

\* C17, as claimed: whenever a search replaces the active circuit, by a
\* catalog match or by a generated circuit, the input vector is all zeros
\* right after the replacement, whatever toggles preceded or overlapped the
\* search.  The generated-circuit branch does not reset the inputs.
C17_InputsZeroAfterReplacement ==
  [][ ( \/ \E search \in MatchedQueries : handleSearch(search)
        \/ \E result \in ResponseKeys : handleSearchResume(result) )
      => \A k \in 1..Len(inputs') : inputs'[k] = Num(0) ]_vars

\* C18, as claimed: under any interleaving of searches and explanation
\* requests the displayed explanation is empty or was produced for the active
\* circuit (its own explanation text, the answer to a request about it, or one
\* of explainCircuitAI's fixed messages).  handleExplain stores the answer
\* without looking at the circuit that is active by then.
C18_ExplanationIsCurrent ==
  explanation \in
    { "", MSG_SET_KEY, MSG_EXPLAIN_ERROR,
      Recipe(activeRecipe).explanation, ExplainText(Recipe(activeRecipe)) }

\* C19, as claimed: after any search that resolves to a catalog key has
\* completed, the displayed explanation is that circuit's explanation text,
\* also when the circuit was already the active one.  In that case
\* setActiveRecipe changes nothing, the effect does not run and the
\* explanation stays cleared.
C19_ExplanationAfterCatalogSearch ==
  [][ \A search \in MatchedQueries :
        handleSearch(search) => explanation' = RECIPES(SearchKey[search]).explanation ]_vars

\* C20, as claimed: for d_ff_7474 and jk_ff_7476 and every input combination
\* the outputs Q and /Q are complementary: exactly one of them is truthy.
\* jk_ff_7476 returns [1,1] for J = K = 1.
C20_FlipFlopOutputsComplementary ==
  (Evaluated /\ activeRecipe \in {"d_ff_7474", "jk_ff_7476"}) =>
    /\ Len(outputs) = 2
    /\ TruthyCount(outputs) = 1

\* the wiring of a catalog circuit's switches and LEDs on the board: every
\* declared output k has a wire ending on LED_k, every declared input k a wire
\* starting from SW_k, and every token of a wire is a rail or a declared
\* switch or LED
SwitchesAndLedsWired(recipe) ==
  /\ \A k \in 0..(Len(recipe.outputs) - 1) :
       \E j \in 1..Len(board.wires) : board.wires[j].e = LED(k)
  /\ \A k \in 0..(Len(recipe.inputs) - 1) :
       \E j \in 1..Len(board.wires) : board.wires[j].s = SW(k)
  /\ \A j \in 1..Len(board.wires) :
       \A v \in {board.wires[j].s, board.wires[j].e} :
         IsString(v) =>
           \/ v \in {VCC, GND}
           \/ \E k \in 0..(Len(recipe.inputs) - 1) : v = SW(k)
           \/ \E k \in 0..(Len(recipe.outputs) - 1) : v = LED(k)

\* C21, as claimed: in every catalog circuit each declared output index k has
\* a wire whose destination is LED_k, each declared input index k a wire
\* whose source is SW_k, and no wire names a switch or LED outside the
\* declared ranges.  multiplier_2bit declares P2 and has no wire to LED_2.
C21_EveryInputAndOutputWired ==
  \A key \in RecipeKeys :
    board = BoardOf(RECIPES(key)) => SwitchesAndLedsWired(RECIPES(key))

=============================================================================
